---- MODULE Spec2Model ----
(***************************************************************************)
(* Model of test-bestbuy-api.py: the probe registers a throwaway user,     *)
(* extracts the bearer token and issues one authenticated GET to the       *)
(* BestBuy health-check endpoint, printing what it learns.                 *)
(*                                                                         *)
(* The function test_bestbuy_connection blocks twice, once in each         *)
(* requests call.  An action is the code that runs between two blocking    *)
(* points: Invoke (lines 9-21, up to the POST being sent),                 *)
(* RegisterResponds (lines 21-37, the POST's outcome up to the GET being   *)
(* sent, or the early return) and CheckResponds (lines 37-59).             *)
(***************************************************************************)
EXTENDS Integers, Sequences, FiniteSets, TLC

\* Bounds of the model.
MaxRuns == 2          \* invocations of the script in one behaviour
MaxTime == 5          \* latest clock reading, in ticks
TicksPerSecond == 2   \* resolution of time.time() below one second

\* Program constants.
BASE_URL == "https://ecommerce-portal-production.up.railway.app/api"
Created == 201

(***************************************************************************)
(* JSON values as json.loads builds them.  t is the type, s the text of a  *)
(* scalar, m the members of an object (or array) in document order, each   *)
(* member a pair <<key, value>>.                                           *)
(***************************************************************************)
JV(t, s, m) == [t |-> t, s |-> s, m |-> m]
Null == JV("null", "", <<>>)
JTrue == JV("bool", "true", <<>>)
JFalse == JV("bool", "false", <<>>)
Str(s) == JV("str", s, <<>>)
Num(s) == JV("num", s, <<>>)
Obj(m) == JV("obj", "", m)
Arr(m) == JV("arr", "", m)
\* A response text that is not JSON (an HTML error page, an empty body).
NotJson == JV("invalid", "<html>", <<>>)
\* Markers: a field left out of a body, an unbound local, an unused argument.
Absent == JV("absent", "", <<>>)
Unbound == JV("unbound", "", <<>>)
Blank == JV("blank", "", <<>>)

\* key in dict
Has(o, k) == \E i \in 1..Len(o.m) : o.m[i][1] = k
\* dict[key], defined when Has(o, k)
Lookup(o, k) == o.m[CHOOSE i \in 1..Len(o.m) : o.m[i][1] = k][2]
\* dict.get(key, default)
DictGet(o, k, default) == IF Has(o, k) THEN Lookup(o, k) ELSE default

\* Python truth value of a parsed JSON value.
Truthy(v) ==
    CASE v.t = "null" -> FALSE
      [] v.t = "bool" -> v.s = "true"
      [] v.t = "num" -> v.s # "0"
      [] v.t = "str" -> v.s # ""
      [] OTHER -> Len(v.m) > 0

\* str(v) as an f-string renders a parsed scalar.
PyStr(v) ==
    CASE v.t = "str" -> v.s
      [] v.t = "null" -> "None"
      [] v.t = "bool" -> (IF v.s = "true" THEN "True" ELSE "False")
      [] v.t = "num" -> v.s

\* One printed line: what it says and the values formatted into it.
Line(tag, a, b) == [tag |-> tag, a |-> a, b |-> b]

\* What a requests call comes back with: an exception, or status and text.
Reply(status, text) == [raised |-> "", status |-> status, text |-> text]
Raise(e) == [raised |-> e, status |-> 0, text |-> NotJson]
NoReply == [raised |-> "", status |-> 0, text |-> Unbound]

VARIABLES pc, runs, invocations, test_user, requests, register_response,
          auth_token, bestbuy_response, out, exit

vars == <<pc, runs, invocations, test_user, requests, register_response,
          auth_token, bestbuy_response, out, exit>>

(***************************************************************************)
(* Step 1: the test identity and the registration call.                    *)
(***************************************************************************)

\* A variant that drops the timestamp's seconds and keeps whole minutes.
Email_Minutes(now) ==
    "bestbuy-test-" \o ToString(now \div (60 * TicksPerSecond)) \o "@example.com"

\* f"bestbuy-test-{int(time.time())}@example.com"; now is the clock in ticks.
Email(now) ==
    "bestbuy-test-" \o ToString(now \div TicksPerSecond) \o "@example.com"

TestUser(now) ==
    [email |-> Email(now), password |-> "testpass123",
     firstName |-> "BestBuy", lastName |-> "Tester"]

\* requests.post(f"{BASE_URL}/auth/register", json=test_user)
PostRequest(user) ==
    [method |-> "POST", url |-> BASE_URL \o "/auth/register",
     json |-> <<user>>, headers |-> {}]

\* What a try block leaves behind: the lines it printed, the exception that
\* ended it ("" when none), the token it bound, whether it executed return.
Outcome(lines, exc, token, returned) ==
    [lines |-> lines, exc |-> exc, token |-> token, returned |-> returned]

\* A variant that reads the token whatever the status code is.
RegisterTry_AnyStatus(reply) ==
    IF reply.raised # "" THEN Outcome(<<>>, reply.raised, Unbound, FALSE)
    ELSE IF reply.text.t = "invalid"
         THEN Outcome(<<>>, "JSONDecodeError", Unbound, FALSE)
    ELSE IF reply.text.t # "obj"
         THEN Outcome(<<>>, "TypeError", Unbound, FALSE)
    ELSE IF ~Has(reply.text, "token")
         THEN Outcome(<<>>, "KeyError", Unbound, FALSE)
    ELSE Outcome(<<Line("Test user created successfully", Blank, Blank)>>,
                 "", Lookup(reply.text, "token"), FALSE)

\* The body of the first try block.
RegisterTry(reply) ==
    IF reply.raised # "" THEN Outcome(<<>>, reply.raised, Unbound, FALSE)
    ELSE IF reply.status = Created
         THEN IF reply.text.t = "invalid"
                   \* register_response.json() raises
                   THEN Outcome(<<>>, "JSONDecodeError", Unbound, FALSE)
              ELSE IF reply.text.t # "obj"
                   \* ["token"] on a list, a string, a number, None
                   THEN Outcome(<<>>, "TypeError", Unbound, FALSE)
              ELSE IF ~Has(reply.text, "token")
                   THEN Outcome(<<>>, "KeyError", Unbound, FALSE)
              ELSE Outcome(<<Line("Test user created successfully", Blank, Blank)>>,
                           "", Lookup(reply.text, "token"), FALSE)
    ELSE Outcome(<<Line("User creation failed", reply.text, Blank)>>,
                 "", Unbound, TRUE)

\* A variant whose handler lets the exception through.
RegisterExcept_Reraise(r) == r

\* except Exception as e: print(f"Registration error: {e}"); return
RegisterExcept(r) ==
    IF r.exc # ""
    THEN Outcome(r.lines \o <<Line("Registration error", Str(r.exc), Blank)>>,
                 "", Unbound, TRUE)
    ELSE r

RegisterStep(reply) == RegisterExcept(RegisterTry(reply))

(***************************************************************************)
(* Step 2: the authenticated health-check call.                            *)
(***************************************************************************)

\* A variant that sends the token without the scheme.
AuthHeader_NoScheme(token) == PyStr(token)

\* f"Bearer {auth_token}"
AuthHeader(token) == "Bearer " \o PyStr(token)

\* requests.get(f"{BASE_URL}/bestbuy/test", headers=headers)
GetRequest(token) ==
    [method |-> "GET", url |-> BASE_URL \o "/bestbuy/test",
     json |-> <<>>, headers |-> {<<"Authorization", AuthHeader(token)>>}]

\* A variant that sends the registration again when it failed.
NextRequests_Retry(r, user) ==
    IF r.exc # "" \/ r.returned THEN <<PostRequest(user)>>
    ELSE <<GetRequest(r.token)>>

\* The requests the code goes on to send once the first try statement is
\* over: none after a return (or an escaping exception), else the GET.
NextRequests(r, user) ==
    IF r.exc # "" \/ r.returned THEN <<>> ELSE <<GetRequest(r.token)>>

\* A variant that prints the data field whenever it is present.
PassedLines_AnyData(result) ==
    [lines |->
        << Line("BestBuy Connection Test PASSED!", Blank, Blank),
           Line("Platform", DictGet(result, "platform", Str("Unknown")), Blank),
           Line("API Key", DictGet(result, "apiKey", Str("Hidden")), Blank) >>
        \o (IF Has(result, "data")
            THEN <<Line("Account Data", Lookup(result, "data"), Blank)>>
            ELSE <<>>),
     exc |-> ""]

\* The branch taken when result.get("success") is true.
PassedLines(result) ==
    [lines |->
        << Line("BestBuy Connection Test PASSED!", Blank, Blank),
           Line("Platform", DictGet(result, "platform", Str("Unknown")), Blank),
           Line("API Key", DictGet(result, "apiKey", Str("Hidden")), Blank) >>
        \o (IF Truthy(DictGet(result, "data", Null))
            THEN <<Line("Account Data", Lookup(result, "data"), Blank)>>
            ELSE <<>>),
     exc |-> ""]

\* for key, value in result["troubleshooting"].items(): print(...)
Suggestions(ts) ==
    [i \in 1..Len(ts.m) |-> Line("suggestion", Str(ts.m[i][1]), ts.m[i][2])]

\* A variant whose loop stops after the first suggestion.
FailedLines_FirstOnly(result) ==
    LET failed == <<Line("BestBuy Connection Test FAILED",
                         DictGet(result, "message", Null), Blank)>>
        ts == DictGet(result, "troubleshooting", Null)
    IN  IF ~Truthy(ts) THEN [lines |-> failed, exc |-> ""]
        ELSE IF ts.t # "obj"
             THEN [lines |-> failed \o <<Line("Troubleshooting suggestions", Blank, Blank)>>,
                   exc |-> "AttributeError"]
        ELSE [lines |-> failed \o <<Line("Troubleshooting suggestions", Blank, Blank)>>
                        \o SubSeq(Suggestions(ts), 1, 1),
              exc |-> ""]

\* The else branch.
FailedLines(result) ==
    LET failed == <<Line("BestBuy Connection Test FAILED",
                         DictGet(result, "message", Null), Blank)>>
        ts == DictGet(result, "troubleshooting", Null)
    IN  IF ~Truthy(ts) THEN [lines |-> failed, exc |-> ""]
        ELSE IF ts.t # "obj"
             \* .items() on a string, a list, a number, True
             THEN [lines |-> failed \o <<Line("Troubleshooting suggestions", Blank, Blank)>>,
                   exc |-> "AttributeError"]
        ELSE [lines |-> failed \o <<Line("Troubleshooting suggestions", Blank, Blank)>>
                        \o Suggestions(ts),
              exc |-> ""]

\* print(f"Status Code: ..."); print(f"Response: {json.dumps(result, indent=2)}")
Echo(reply) ==
    << Line("Status Code", Num(ToString(reply.status)), Blank),
       Line("Response", reply.text, Blank) >>

\* A variant that takes the failed branch on an HTTP error status.
CheckTry_ByStatus(reply) ==
    IF reply.raised # "" THEN [lines |-> <<>>, exc |-> reply.raised]
    ELSE IF reply.text.t = "invalid" THEN [lines |-> <<>>, exc |-> "JSONDecodeError"]
    ELSE IF reply.text.t # "obj" THEN [lines |-> Echo(reply), exc |-> "AttributeError"]
    ELSE LET branch == IF reply.status < 400
                          /\ Truthy(DictGet(reply.text, "success", Null))
                       THEN PassedLines(reply.text)
                       ELSE FailedLines(reply.text)
         IN  [lines |-> Echo(reply) \o branch.lines, exc |-> branch.exc]

\* The body of the second try block.
CheckTry(reply) ==
    IF reply.raised # "" THEN [lines |-> <<>>, exc |-> reply.raised]
    \* bestbuy_response.json() raises
    ELSE IF reply.text.t = "invalid" THEN [lines |-> <<>>, exc |-> "JSONDecodeError"]
    \* result.get on a list, a string, a number, None
    ELSE IF reply.text.t # "obj" THEN [lines |-> Echo(reply), exc |-> "AttributeError"]
    ELSE LET branch == IF Truthy(DictGet(reply.text, "success", Null))
                       THEN PassedLines(reply.text)
                       ELSE FailedLines(reply.text)
         IN  [lines |-> Echo(reply) \o branch.lines, exc |-> branch.exc]

\* A variant whose handler lets the exception through.
CheckExcept_Reraise(r) == r

\* except Exception as e: print(f"BestBuy test error: {e}")
CheckExcept(r) ==
    IF r.exc # ""
    THEN [lines |-> r.lines \o <<Line("BestBuy test error", Str(r.exc), Blank)>>,
          exc |-> ""]
    ELSE r

CheckStep(reply) == CheckExcept(CheckTry(reply))

(***************************************************************************)
(* What the backend may answer.                                            *)
(***************************************************************************)

\* A member of an object, left out when its value is Absent.
Field(k, v) == IF v = Absent THEN <<>> ELSE << <<k, v>> >>

Times == 0..MaxTime
TransportErrors == {"ConnectionError", "Timeout"}

\* Tokens a registration may hand out: strings, and a JSON null.
Tokens == {Str("abc"), Str("tok-2"), Null}

RegisterStatuses == {Created, 200, 400}
RegisterTexts ==
    {NotJson, Str("ok"), Obj(Field("message", Str("Email already registered")))}
    \cup {Obj(Field("token", t)) : t \in Tokens}
RegisterReplies ==
    {Raise(e) : e \in TransportErrors}
    \cup {Reply(st, tx) : st \in RegisterStatuses, tx \in RegisterTexts}

DataValues ==
    {Absent, Null, Obj(<<>>), Obj(Field("x", Num("1")))}
TroubleshootingValues ==
    {Absent, Obj(<<>>), Obj(Field("check", Str("your credentials"))),
     Obj(Field("check", Str("your credentials")) \o Field("retry", Str("later"))),
     Str("check your credentials")}

PassedTexts ==
    {Obj(Field("success", JTrue) \o Field("platform", p) \o Field("apiKey", k)
         \o Field("data", d)) :
        p \in {Absent, Str("BestBuy")}, k \in {Absent, Str("hidden")},
        d \in DataValues}
FailedTexts ==
    {Obj(Field("success", sc) \o Field("message", msg)
         \o Field("troubleshooting", ts)) :
        sc \in {Absent, JFalse}, msg \in {Absent, Str("bad key")},
        ts \in TroubleshootingValues}

CheckStatuses == {200, 401}
CheckTexts == {NotJson, Arr(<<>>)} \cup PassedTexts \cup FailedTexts
CheckReplies ==
    {Raise(e) : e \in TransportErrors}
    \cup {Reply(st, tx) : st \in CheckStatuses, tx \in CheckTexts}

(***************************************************************************)
(* The state machine.                                                      *)
(***************************************************************************)

NoUser == [email |-> "", password |-> "", firstName |-> "", lastName |-> ""]

Init ==
    /\ pc = "idle"
    /\ runs = 0
    /\ invocations = {}
    /\ test_user = NoUser
    /\ requests = <<>>
    /\ register_response = NoReply
    /\ auth_token = Unbound
    /\ bestbuy_response = NoReply
    /\ out = <<>>
    /\ exit = "none"

\* python test-bestbuy-api.py at clock reading now: lines 9-21, until the
\* POST is on the wire.
Invoke(now) ==
    /\ pc \in {"idle", "done"}
    /\ runs < MaxRuns
    /\ runs' = runs + 1
    /\ test_user' = TestUser(now)
    /\ invocations' = invocations \cup {[time |-> now, email |-> TestUser(now).email]}
    /\ out' = << Line("Testing BestBuy Connection on Railway Deployment", Blank, Blank),
                 Line("1. Creating test user...", Blank, Blank) >>
    /\ requests' = <<PostRequest(TestUser(now))>>
    /\ register_response' = NoReply
    /\ auth_token' = Unbound
    /\ bestbuy_response' = NoReply
    /\ exit' = "none"
    /\ pc' = "awaitPost"

\* requests.post comes back: lines 21-37, until the function returns or the
\* GET is on the wire.
RegisterResponds(reply) ==
    /\ pc = "awaitPost"
    /\ LET r == RegisterStep(reply)
           more == NextRequests(r, test_user)
       IN  /\ register_response' = reply
           /\ auth_token' = r.token
           /\ requests' = requests \o more
           /\ out' = out \o r.lines
                     \o (IF r.exc = "" /\ ~r.returned
                         THEN <<Line("2. Testing BestBuy API connection...", Blank, Blank)>>
                         ELSE <<>>)
           /\ exit' = IF r.exc # "" THEN "uncaught"
                      ELSE IF r.returned THEN "returned" ELSE "none"
           /\ pc' = IF more = <<>> THEN "done"
                    ELSE IF more[1].method = "POST" THEN "awaitPost" ELSE "awaitGet"
    /\ UNCHANGED <<runs, invocations, test_user, bestbuy_response>>

\* requests.get comes back: lines 37-59 and the fall off the function's end.
CheckResponds(reply) ==
    /\ pc = "awaitGet"
    /\ LET r == CheckStep(reply)
       IN  /\ bestbuy_response' = reply
           /\ out' = out \o r.lines
           /\ exit' = IF r.exc # "" THEN "uncaught" ELSE "returned"
    /\ pc' = "done"
    /\ UNCHANGED <<runs, invocations, test_user, requests, register_response,
                   auth_token>>

Next ==
    \/ \E now \in Times : Invoke(now)
    \/ \E reply \in RegisterReplies : RegisterResponds(reply)
    \/ \E reply \in CheckReplies : CheckResponds(reply)

Spec == Init /\ [][Next]_vars

\* Each network call returns a response or raises: a pending call is answered.
FairSpec ==
    /\ Spec
    /\ WF_vars(\E reply \in RegisterReplies : RegisterResponds(reply))
    /\ WF_vars(\E reply \in CheckReplies : CheckResponds(reply))

(***************************************************************************)
(* Properties.                                                             *)
(***************************************************************************)

\* Positions in this run's request log of the requests with method m.
Sent(m) == {i \in 1..Len(requests) : requests[i].method = m}
GetIssued == Sent("GET") # {}
Printed(tag) == \E i \in 1..Len(out) : out[i].tag = tag
Marker == "2. Testing BestBuy API connection..."
\* The lines printed by step 2 after its heading.
CheckPrinted ==
    IF Printed(Marker)
    THEN SubSeq(out, (CHOOSE i \in 1..Len(out) : out[i].tag = Marker) + 1, Len(out))
    ELSE <<>>
InCheckPrinted(line) == \E j \in 1..Len(CheckPrinted) : CheckPrinted[j] = line
RegisterAnswered == pc \in {"awaitGet", "done"}
\* The health check came back with a JSON object.
CheckParsed ==
    /\ pc = "done" /\ GetIssued
    /\ bestbuy_response.raised = "" /\ bestbuy_response.text.t = "obj"
SuccessIs(v) == CheckParsed /\ DictGet(bestbuy_response.text, "success", Null) = v

\* The registration reply is a 201 whose body parses to an object with a token.
TokenExtractable(reply) ==
    /\ reply.raised = "" /\ reply.status = Created
    /\ reply.text.t = "obj" /\ Has(reply.text, "token")

\* C1: the GET is issued only after the registration returned 201 and a token
\* was extracted from its body; a registration that ends any other way prints
\* a registration failure, ends the run and the GET is not attempted.
C1_GetOnlyAfterToken ==
    /\ GetIssued =>
          /\ TokenExtractable(register_response)
          /\ auth_token = Lookup(register_response.text, "token")
    /\ (RegisterAnswered /\ ~TokenExtractable(register_response)) =>
          /\ ~GetIssued
          /\ pc = "done"
          /\ out[Len(out)].tag \in {"User creation failed", "Registration error"}

C1_Witness ==
    /\ pc = "done"
    /\ register_response.raised = "" /\ register_response.status = Created
    /\ register_response.text.t = "obj" /\ ~Has(register_response.text, "token")
    /\ out[Len(out)].tag = "Registration error"

\* The token as the registration body carries it.
WireText(v) == IF v.t = "null" THEN "null" ELSE v.s

\* C2 as stated: for every token value t of a 201 registration body, the GET
\* carries Authorization: "Bearer " followed by t, unchanged.
C2_BearerAnyToken ==
    GetIssued =>
        \A i \in Sent("GET") :
            requests[i].headers =
                {<<"Authorization",
                   "Bearer " \o WireText(Lookup(register_response.text, "token"))>>}

\* C2 amended: for every string token t the GET carries Authorization:
\* "Bearer " followed by t; a null token is sent as "Bearer None".
C2_BearerStringToken ==
    GetIssued =>
        LET t == Lookup(register_response.text, "token")
        IN  \A i \in Sent("GET") :
                /\ t.t = "str" =>
                      requests[i].headers = {<<"Authorization", "Bearer " \o t.s>>}
                /\ t.t = "null" =>
                      requests[i].headers = {<<"Authorization", "Bearer None">>}

C2_Witness ==
    /\ GetIssued
    /\ Lookup(register_response.text, "token") = Str("abc")
    /\ \E i \in Sent("GET") : requests[i].headers = {<<"Authorization", "Bearer abc">>}

\* C3: a transport exception raised by either call has its message printed,
\* no further request is issued and the run ends without an uncaught exception.
C3_TransportErrorHandled ==
    /\ register_response.raised # "" =>
          /\ pc = "done" /\ exit = "returned"
          /\ out[Len(out)] = Line("Registration error", Str(register_response.raised), Blank)
          /\ Len(requests) = 1 /\ ~GetIssued
    /\ bestbuy_response.raised # "" =>
          /\ pc = "done" /\ exit = "returned"
          /\ out[Len(out)] = Line("BestBuy test error", Str(bestbuy_response.raised), Blank)
          /\ Len(requests) = 2

C3_Witness ==
    /\ pc = "done"
    /\ bestbuy_response.raised = "Timeout"
    /\ Printed("BestBuy test error")

NotStatusLine(line) == line.tag # "Status Code"
Branch(lines) ==
    IF \E j \in 1..Len(lines) : lines[j].tag = "BestBuy Connection Test PASSED!"
    THEN "passed"
    ELSE IF \E j \in 1..Len(lines) : lines[j].tag = "BestBuy Connection Test FAILED"
    THEN "failed" ELSE "none"

\* C4: the health check's report does not depend on its status code: the same
\* body under any other status takes the same branch and prints the same
\* lines apart from the status code line.
C4_StatusNotLoadBearing ==
    (pc = "done" /\ GetIssued /\ bestbuy_response.raised = "") =>
        \A st \in CheckStatuses :
            LET other == CheckStep([bestbuy_response EXCEPT !.status = st]).lines
            IN  /\ Branch(other) = Branch(CheckPrinted)
                /\ SelectSeq(other, NotStatusLine) = SelectSeq(CheckPrinted, NotStatusLine)

C4_Witness ==
    /\ SuccessIs(JTrue)
    /\ bestbuy_response.status = 401
    /\ Branch(CheckPrinted) = "passed"

\* The platform and API-key lines of the passed branch.
PassedReported ==
    /\ InCheckPrinted(Line("Platform",
            DictGet(bestbuy_response.text, "platform", Str("Unknown")), Blank))
    /\ InCheckPrinted(Line("API Key",
            DictGet(bestbuy_response.text, "apiKey", Str("Hidden")), Blank))

\* C5 as stated: with success true the output reports the platform name and
\* the API-key indicator, and a data field, whatever its value, is
\* pretty-printed.
C5_AnyDataPrinted ==
    SuccessIs(JTrue) =>
        /\ PassedReported
        /\ Has(bestbuy_response.text, "data") =>
              InCheckPrinted(Line("Account Data",
                                  Lookup(bestbuy_response.text, "data"), Blank))

\* C5 amended: with success true the output reports the platform name and the
\* API-key indicator, and the data field gets its Account Data line exactly
\* when it is present and truthy; a null or empty data field shows only
\* inside the echoed response.
C5_TruthyDataPrinted ==
    SuccessIs(JTrue) =>
        LET data == DictGet(bestbuy_response.text, "data", Null)
        IN  /\ PassedReported
            /\ InCheckPrinted(Line("Response", bestbuy_response.text, Blank))
            /\ Truthy(data) => InCheckPrinted(Line("Account Data", data, Blank))
            /\ ~Truthy(data) =>
                  ~\E j \in 1..Len(CheckPrinted) : CheckPrinted[j].tag = "Account Data"

C5_Witness ==
    /\ SuccessIs(JTrue)
    /\ DictGet(bestbuy_response.text, "platform", Null) = Str("BestBuy")
    /\ InCheckPrinted(Line("Account Data", Obj(Field("x", Num("1"))), Blank))

IsSuggestion(line) == line.tag = "suggestion"

\* C6: with success false the output reports the message field, and every
\* key/value pair of a troubleshooting mapping appears as a suggestion line,
\* one line per pair.
C6_AllSuggestionsPrinted ==
    SuccessIs(JFalse) =>
        LET ts == DictGet(bestbuy_response.text, "troubleshooting", Null)
        IN  /\ InCheckPrinted(Line("BestBuy Connection Test FAILED",
                    DictGet(bestbuy_response.text, "message", Null), Blank))
            /\ ts.t = "obj" =>
                  /\ \A i \in 1..Len(ts.m) :
                        InCheckPrinted(Line("suggestion", Str(ts.m[i][1]), ts.m[i][2]))
                  /\ Len(SelectSeq(CheckPrinted, IsSuggestion)) = Len(ts.m)

C6_Witness ==
    /\ SuccessIs(JFalse)
    /\ Len(DictGet(bestbuy_response.text, "troubleshooting", Null).m) = 2
    /\ DictGet(bestbuy_response.text, "message", Null) = Str("bad key")
    /\ Len(SelectSeq(CheckPrinted, IsSuggestion)) = 2

\* C7: a health-check body with success false is never treated as an error:
\* the failed-test branch reports it and the exception handler's message is
\* never printed.
C7_FailureIsNotAnError ==
    SuccessIs(JFalse) =>
        /\ Branch(CheckPrinted) = "failed"
        /\ ~Printed("BestBuy test error")

\* C8: in every run the registration POST is issued at most once and the
\* health-check GET at most once, whatever the outcomes of the calls.
C8_NoRetry ==
    /\ Cardinality(Sent("POST")) <= 1
    /\ Cardinality(Sent("GET")) <= 1

C8_Witness ==
    /\ pc = "done"
    /\ bestbuy_response.raised = "ConnectionError"
    /\ Cardinality(Sent("POST")) = 1 /\ Cardinality(Sent("GET")) = 1

\* C9: two invocations whose clock readings differ by more than one second
\* generate different emails.
C9_EmailsDiffer ==
    \A a \in invocations, b \in invocations :
        a.time - b.time > TicksPerSecond => a.email # b.email

C9_Witness ==
    \E a \in invocations, b \in invocations :
        a.time - b.time > TicksPerSecond /\ a.email # b.email

\* C10: when each network call returns or raises, every run terminates, and
\* on every path it ends by returning normally.
C10_Terminates ==
    /\ (pc \in {"awaitPost", "awaitGet"}) ~> (pc = "done")
    /\ [](pc = "done" => exit = "returned")

C10_Witness ==
    /\ pc = "done" /\ exit = "returned"
    /\ register_response.raised = "Timeout"
    /\ runs = MaxRuns

====
